---- MODULE Spec2Model ----
(***************************************************************************)
(* Model of the procrastination detector: the detection loop of main()     *)
(* (src/app.py) and the alert presenter trigger_alert()                    *)
(* (src/alert_system.py).  The program is single threaded: trigger_alert   *)
(* runs inside one iteration of the detection loop and blocks it.          *)
(***************************************************************************)
EXTENDS Integers, Sequences, FiniteSets

\* ------------------------------------------------------------------ bounds
\* Smallest and largest configured detection threshold explored
\* (config.detection.threshold is any integer of the configuration file; a
\* negative one behaves as 0 does).
MinThreshold == 0
MaxThreshold == 3
\* Longest sequence of loop iterations (frames) explored by Spec.
MaxFrames == 6
\* Most loop iterations that are skipped (failed read, detector exception).
MaxSkips == 1
\* Largest number of images load_horse_images returns.
MaxImages == 2
\* Most events pygame.event.get() returns in one tick.
MaxEvents == 2
\* Largest reading of pygame.time.get_ticks() when the carousel starts
\* (line 198), and largest reading explored in one alert session.
MaxStart == 1
\* Files in the images folder, and frames in one GIF.
MaxFiles == 2
MaxGifFrames == 4
MaxTime == 4
\* Last clock reading of a render loop that is followed over several
\* transitions.
MaxClock == 12

\* config.alert.switch_interval and config.alert.transition_duration, in the
\* model's clock unit.
switch_interval == 2
transition_duration == 2

Thresholds == MinThreshold..MaxThreshold

Min(a, b) == IF a <= b THEN a ELSE b

\* ------------------------------------------------------------------- state
VARIABLES
    scope,                  \* the extent of the exploration (see Init, InitAlert)
    pc,                     \* "start", "loop" (top of while True), "alert" (inside
                            \* the render loop of trigger_alert), "done" (main returned)
    threshold,              \* config.detection.threshold
    phone_detected_frames,  \* the consecutive-detection counter
    cap_open,               \* a camera handle is open and not released
    exit_code,              \* return value of main(); -1 while running
    quit_pressed,           \* the quit key was pressed in the main window and
                            \* waits for the next cv2.waitKey
    \* locals of trigger_alert
    nimages,                \* len(horse_images)
    audio_found,
    warning_surf,           \* the "Audio file missing!" banner was rendered
    idx, next_idx, transitioning, transition_start, last_switch,
    now,                    \* last reading of pygame.time.get_ticks()
    running, should_continue,
    progress,               \* in units of 1/transition_duration; -1 while unbound
    \* observation of the run
    history,                \* outcome of every loop iteration so far
    alert_at,               \* indices of the iterations that invoked trigger_alert
    alert_calls,            \* number of invocations of trigger_alert
    alert_ret,              \* how the last trigger_alert ended
    last_events,            \* events polled by the last render tick
    failed,                 \* failures met by the last trigger_alert
    display_opened,         \* the last trigger_alert created a window
    images_loaded,          \* images the last trigger_alert loaded; -1: none asked
    tick_transitioning,     \* transitioning, when the last tick polled its events
    started_at,             \* clock reading when the last render loop was set up
    commits,                \* the transitions the last render loop completed:
                            \* the tick and the index that became current
    env_seen,               \* what startup found
    exit_reason,            \* why main() returned
    \* load_horse_images
    folder,                 \* the images folder: whether it can be listed, and
                            \* what the decoder in use makes of each file
    IMAGEIO_AVAILABLE,      \* the optional import of imageio succeeded
    surfaces,               \* the list under construction, then returned
    loaded                  \* "none", "returned", or "raised"

mainVars == <<pc, threshold, phone_detected_frames, cap_open, exit_code,
              quit_pressed>>
alertVars == <<nimages, audio_found, warning_surf, idx, next_idx, transitioning,
               transition_start, last_switch, now, running, should_continue,
               progress>>
sessionObs == <<alert_ret, last_events, failed, display_opened, images_loaded,
                tick_transitioning, started_at, commits>>
obsVars == <<history, alert_at, alert_calls, sessionObs, env_seen, exit_reason>>
loadVars == <<folder, IMAGEIO_AVAILABLE, surfaces, loaded>>
vars == <<scope, mainVars, alertVars, obsVars, loadVars>>

\* Outcomes of one loop iteration, as recorded in history.
Skips == {"read_fail", "det_exc"}
Outcomes == {"yes", "no"} \cup Skips

\* Events of pygame.event.get() that trigger_alert tells apart.
\* "OTHER" is any event no branch of lines 284-297 acts on: another type,
\* another key, a click outside both buttons.
Events == {"QUIT", "KEY_Q", "CLICK_CONTINUE", "CLICK_QUIT", "OTHER"}

Batches(most) == UNION {[1..n -> Events] : n \in 0..most}

\* ------------------------------------------------------ main(): startup
\* Mutant: an exception of YOLO() is not turned into exit code 1.
StartupExitModelLoadUnchecked(env) ==
    IF env \in {"model_missing", "camera_unavailable", "camera_open_raise",
                "camera_not_opened"}
    THEN 1 ELSE -1

\* Exit code of the startup path, or -1 when the detection loop is entered.
\* env is what the environment offers: validate_environment fails on a
\* missing model file or an unopenable camera; YOLO() may raise; the second
\* VideoCapture may raise or come back unopened.
StartupExit(env) ==
    IF env \in {"model_missing", "camera_unavailable", "model_load_fail",
                "camera_open_raise", "camera_not_opened"}
    THEN 1 ELSE -1

\* The finally block of main(): the camera is released.
Cleanup(held) == FALSE

\* Lines 202-214: the value main() returns when it leaves the try block
\* through an unexpected exception (fatal) or otherwise.
LoopExit(fatal) == IF fatal THEN 1 ELSE 0

Startup ==
    /\ pc = "start"
    /\ \E env \in {"model_missing", "camera_unavailable", "model_load_fail",
                   "camera_open_raise", "camera_not_opened", "ok"} :
         /\ exit_code' = StartupExit(env)
         /\ pc' = IF StartupExit(env) = -1 THEN "loop" ELSE "done"
         \* test_cap is released inside validate_environment; cap is
         \* released by the finally block on every return after line 101
         /\ cap_open' = IF StartupExit(env) = -1 THEN TRUE ELSE Cleanup(cap_open)
         /\ env_seen' = env
         /\ exit_reason' = IF env = "ok" THEN "none" ELSE "startup"
    /\ phone_detected_frames' = 0
    /\ UNCHANGED <<scope, loadVars, threshold, quit_pressed, alertVars, history, alert_at,
                   alert_calls, sessionObs>>

\* ------------------------------------------- main(): the detection loop
\* Mutant: a frame without the phone keeps the counter.
UpdateCounterKeepsOnMiss(c, detected) == IF detected THEN c + 1 ELSE c

\* Lines 132-139.
UpdateCounter(c, detected) == IF detected THEN c + 1 ELSE 0

\* Mutant: an exception of the detector counts as "not detected".
CounterResetOnDetectorError(c, read, det) ==
    IF read # "ok" THEN c ELSE UpdateCounter(c, det = "yes")

\* The counter after the detection part of one iteration: a failed read
\* (line 115) or an exception of the detector (caught at line 198) leaves
\* it alone.
CounterAfterFrame(c, read, det) ==
    IF read # "ok" \/ det = "raise" THEN c ELSE UpdateCounter(c, det = "yes")

\* Mutant: the alert waits for one frame more.
ThresholdExceeded(c) == c > threshold

\* Line 142.
ThresholdReached(c) == c >= threshold

\* Mutant: the reset is skipped when trigger_alert raises.
CounterKeptOnRaise(c, ret) == IF ret = "true" THEN 0 ELSE c

\* Lines 147-153: the counter after trigger_alert ended with ret.
CounterAfterAlert(c, ret) == IF ret = "false" THEN c ELSE 0

\* Mutant: the return value of trigger_alert is ignored.
NeverBreaksAfterAlert(ret) == FALSE

\* Lines 147-149: break when trigger_alert returned False.
BreaksAfterAlert(ret) == ret = "false"

\* Lines 155-196: what the rest of the iteration does.  "display_exc" is an
\* exception of plot/putText/imshow/waitKey (caught at line 198).
TailInputs == {"ok", "display_exc", "quit_key", "window_closed"}

\* Lines 185-196: with "quit_key" the key arrives during waitKey itself; a
\* key pressed earlier is still waiting and waitKey hands it back as soon as
\* an iteration gets that far.
BreaksInTail(t) ==
    \/ t \in {"quit_key", "window_closed"}
    \/ (quit_pressed /\ t = "ok")

\* Lines 185-196: waitKey is asked before the window property.
TailReason(t) ==
    IF t = "window_closed" /\ ~quit_pressed THEN "window_closed" ELSE "quit_key"

\* The locals of trigger_alert are dropped when it ends.
DropSession ==
    /\ nimages' = 0
    /\ audio_found' = FALSE
    /\ warning_surf' = FALSE
    /\ idx' = 0
    /\ next_idx' = 0
    /\ transitioning' = FALSE
    /\ transition_start' = 0
    /\ last_switch' = 0
    /\ now' = 0
    /\ running' = FALSE
    /\ should_continue' = TRUE
    /\ progress' = -1

\* Lines 155-196, the rest of an iteration, on input t.
FinishFrame(t) ==
    IF BreaksInTail(t)
    THEN /\ pc' = "done"
         /\ exit_code' = LoopExit(FALSE)
         /\ cap_open' = Cleanup(cap_open)
         /\ exit_reason' = TailReason(t)
    ELSE /\ pc' = "loop"
         /\ UNCHANGED <<exit_code, cap_open, exit_reason>>

\* main() from the end of trigger_alert (ret) to the end of the iteration,
\* with c the counter when trigger_alert was invoked.
ResumeMain(c, ret) ==
    /\ alert_ret' = ret
    /\ phone_detected_frames' = CounterAfterAlert(c, ret)
    /\ IF BreaksAfterAlert(ret)
       THEN /\ pc' = "done"
            /\ exit_code' = LoopExit(FALSE)
            /\ cap_open' = Cleanup(cap_open)
            /\ exit_reason' = "alert_quit"
       ELSE \E t \in TailInputs \ scope.spared : FinishFrame(t)

\* ------------------------------------- trigger_alert(): before the loop
\* What can go wrong before the render loop, in program order.
SetupSteps == {"init", "load_raise", "audio", "display", "font", "warn_font"}

\* Mutant: a failure of set_mode is not caught.
SetupResultDisplayRaises(f, n) ==
    IF "init" \in f THEN "true"
    ELSE IF "load_raise" \in f THEN "raise"
    ELSE IF n = 0 THEN "true"
    ELSE IF "display" \in f THEN "raise"
    ELSE IF "font" \in f THEN "true"
    ELSE "loop"

\* How the part of trigger_alert before the render loop ends, given the set
\* f of steps that fail when reached, and n images in the folder:
\* "true" is an early return True, "raise" an exception that leaves
\* trigger_alert, "loop" the entry into the render loop.
SetupResult(f, n) ==
    IF "init" \in f THEN "true"                \* lines 100-104
    ELSE IF "load_raise" \in f THEN "raise"    \* line 111, outside any try
    ELSE IF n = 0 THEN "true"                  \* lines 112-115
    ELSE IF "display" \in f THEN "true"        \* lines 156-162
    ELSE IF "font" \in f THEN "true"           \* lines 172-181
    ELSE "loop"

\* The failures that were actually met (a step after an early exit is not
\* reached; the banner is only rendered when no audio plays).
SetupMet(f, n, audio_file) ==
    IF "init" \in f THEN {"init"}
    ELSE IF "load_raise" \in f THEN {"load_raise"}
    ELSE IF n = 0 THEN {}
    ELSE (f \cap {"audio"})
         \cup (IF "display" \in f THEN {"display"}
               ELSE IF "font" \in f THEN {"font"}
               ELSE IF ("audio" \in f \/ ~audio_file) THEN f \cap {"warn_font"}
               ELSE {})

\* Lines 118-134.
AudioFound(f, audio_file) == audio_file /\ "audio" \notin f

\* What trigger_alert can meet before its render loop: the images in the
\* folder, whether the audio file exists, and the steps that fail (only
\* steps that are reached can fail).
SetupCases(most) ==
    {case \in [n : 0..most, audio_file : BOOLEAN, f : SUBSET SetupSteps] :
        case.f = SetupMet(case.f, case.n, case.audio_file)}

\* Line 111: the images load_horse_images handed back, -1 when it was not
\* called or raised.
ImagesLoaded(f, n) == IF "init" \in f \/ "load_raise" \in f THEN -1 ELSE n

\* Lines 156-157: set_mode is reached.
DisplayOpened(f, n) ==
    /\ "init" \notin f
    /\ "load_raise" \notin f
    /\ n > 0
    /\ "display" \notin f

\* ---------------------------------------- trigger_alert(): render loop
\* Mutant: a click on the continue button does not stop the render loop.
HandleEventContinueIgnored(ev, st) ==
    CASE ev = "QUIT" -> [running |-> FALSE, should_continue |-> FALSE]
      [] ev = "KEY_Q" -> [running |-> FALSE, should_continue |-> TRUE]
      [] ev = "CLICK_QUIT" -> [running |-> FALSE, should_continue |-> FALSE]
      [] OTHER -> st

\* Mutant: a click on the quit button leaves should_continue as it is.
HandleEventQuitClickKeeps(ev, st) ==
    CASE ev = "QUIT" -> [running |-> FALSE, should_continue |-> FALSE]
      [] ev = "KEY_Q" -> [running |-> FALSE, should_continue |-> TRUE]
      [] ev = "CLICK_CONTINUE" -> [running |-> FALSE, should_continue |-> TRUE]
      [] ev = "CLICK_QUIT" -> [running |-> FALSE,
                               should_continue |-> st.should_continue]
      [] OTHER -> st

\* Mutant: the q/Escape key is handled like a window close.
HandleEventKeyQuits(ev, st) ==
    CASE ev = "QUIT" -> [running |-> FALSE, should_continue |-> FALSE]
      [] ev = "KEY_Q" -> [running |-> FALSE, should_continue |-> FALSE]
      [] ev = "CLICK_CONTINUE" -> [running |-> FALSE, should_continue |-> TRUE]
      [] ev = "CLICK_QUIT" -> [running |-> FALSE, should_continue |-> FALSE]
      [] OTHER -> st

\* Lines 283-297: one event.
HandleEvent(ev, st) ==
    CASE ev = "QUIT" -> [running |-> FALSE, should_continue |-> FALSE]
      [] ev = "KEY_Q" -> [running |-> FALSE, should_continue |-> TRUE]
      [] ev = "CLICK_CONTINUE" -> [running |-> FALSE, should_continue |-> TRUE]
      [] ev = "CLICK_QUIT" -> [running |-> FALSE, should_continue |-> FALSE]
      [] OTHER -> st

\* The for loop over the polled events.
RECURSIVE HandleEvents(_, _)
HandleEvents(evs, st) ==
    IF evs = <<>> THEN st
    ELSE HandleEvents(Tail(evs), HandleEvent(Head(evs), st))

\* Mutant: progress is not clamped to 1.
ProgressUnclamped(t, start) == t - start

\* Line 221, times transition_duration: progress = ProgressNum / transition_duration.
ProgressNum(t, start) == Min(transition_duration, t - start)

\* Mutant: the index after the last is not wrapped round.
NextIndexUnwrapped(i, n) == i + 1

\* Line 216.
NextIndex(i, n) == (i + 1) % n

\* Line 213.
StartsTransition(t) == ~transitioning /\ t - last_switch >= switch_interval

\* Carousel state after lines 210-228 at clock reading t.
Carousel(t) ==
    LET tr1 == transitioning \/ StartsTransition(t)
        ts1 == IF StartsTransition(t) THEN t ELSE transition_start
        nx1 == IF StartsTransition(t) THEN NextIndex(idx, nimages) ELSE next_idx
        fin == tr1 /\ ProgressNum(t, ts1) >= transition_duration
    IN [transitioning |-> tr1 /\ ~fin,
        transition_start |-> ts1,
        next_idx |-> nx1,
        idx |-> IF fin THEN nx1 ELSE idx,
        last_switch |-> IF fin THEN t ELSE last_switch,
        progress |-> IF tr1 THEN ProgressNum(t, ts1) ELSE progress,
        committed |-> fin]

\* ------------------------------------------------- load_horse_images()
\* File names are sequences of character codes: 46 is ".", 65..90 are
\* "A".."Z", 97..122 are "a".."z".
Stems == {<<66>>, <<97>>}                                   \* "B", "a"
PngExts == {<<46, 112, 110, 103>>, <<46, 80, 78, 71>>}      \* ".png", ".PNG"
GifExts == {<<46, 103, 105, 102>>, <<46, 71, 73, 70>>}      \* ".gif", ".GIF"
OtherExts == {<<46, 106, 112, 103>>}                        \* ".jpg"
NamesWith(exts) == {stem \o ext : stem \in Stems, ext \in exts}
Names == NamesWith(PngExts \cup GifExts \cup OtherExts)

\* str.lower() and str.endswith().
lower(fname) ==
    [i \in 1..Len(fname) |-> IF fname[i] \in 65..90 THEN fname[i] + 32 ELSE fname[i]]
endswith(str, suffix) ==
    /\ Len(str) >= Len(suffix)
    /\ \A i \in 1..Len(suffix) : str[Len(str) - Len(suffix) + i] = suffix[i]

\* Comparison of two str: by code point, a proper prefix first.
RECURSIVE StrLess(_, _)
StrLess(a, b) ==
    IF Len(b) = 0 THEN FALSE
    ELSE IF Len(a) = 0 THEN TRUE
    ELSE IF a[1] # b[1] THEN a[1] < b[1]
    ELSE StrLess(Tail(a), Tail(b))

\* Mutant: the listing is sorted without regard to case.
RECURSIVE SortedIgnoringCase(_)
SortedIgnoringCase(names) ==
    IF names = {} THEN <<>>
    ELSE LET first == CHOOSE x \in names :
                          \A y \in names : ~StrLess(lower(y), lower(x))
         IN <<first>> \o SortedIgnoringCase(names \ {first})

\* Line 43: sorted() of the names os.listdir returned.
RECURSIVE sorted(_)
sorted(names) ==
    IF names = {} THEN <<>>
    ELSE LET first == CHOOSE x \in names : \A y \in names \ {x} : StrLess(x, y)
         IN <<first>> \o sorted(names \ {first})

\* A decoded image: frame k of a file (0 for a still).
Entry(fname, k) == [file |-> fname, frame |-> k]

\* Lines 68-72: the frames imageio.mimread returned are converted and
\* appended one by one, up to the first whose conversion raises.
RECURSIVE Frames(_, _, _)
Frames(fname, k, stop) ==
    IF k >= stop THEN <<>> ELSE <<Entry(fname, k)>> \o Frames(fname, k + 1, stop)

\* Lines 50-52: the file is passed over.
Ignored(fname) ==
    ~(endswith(lower(fname), <<46, 112, 110, 103>>)
      \/ endswith(lower(fname), <<46, 103, 105, 102>>))

\* Lines 56-67: the file goes to pygame.image.load.
LoadedByPygame(fname) ==
    /\ ~Ignored(fname)
    /\ \/ endswith(lower(fname), <<46, 112, 110, 103>>)
       \/ ~IMAGEIO_AVAILABLE

\* Lines 60-61 and 66-67 catch pygame.error alone: any other exception of
\* pygame.image.load leaves load_horse_images.
Escapes(fname, content) == LoadedByPygame(fname) /\ content.dec = "escape"

\* Lines 49-78: what one file appends to the list.
FileEntries(fname, content) ==
    IF Ignored(fname) THEN <<>>
    ELSE IF LoadedByPygame(fname)
         THEN IF content.dec = "ok" THEN <<Entry(fname, 0)>> ELSE <<>>
    ELSE IF content.dec = "ok" THEN Frames(fname, 0, content.bad)
    ELSE <<>>

\* The for loop of lines 48-78 over the files still to do.
RECURSIVE LoadFiles(_, _)
LoadFiles(todo, acc) ==
    IF todo = <<>> THEN [result |-> "returned", surfaces |-> acc]
    ELSE IF Escapes(Head(todo), folder.files[Head(todo)])
         THEN [result |-> "raised", surfaces |-> acc]
    ELSE LoadFiles(Tail(todo),
                   acc \o FileEntries(Head(todo), folder.files[Head(todo)]))

\* Lines 24-81.
load_horse_images ==
    IF folder.state # "listed"                    \* lines 38-46
    THEN [result |-> "returned", surfaces |-> <<>>]
    ELSE LoadFiles(sorted(DOMAIN folder.files), <<>>)

\* ----------------------------------------------------------------- actions
\* The observation variables of an alert session are recorded when the
\* exploration asks for them.
Obs(x, dflt) == IF scope.observe THEN x ELSE dflt

\* The run is recorded when the exploration asks for it; otherwise history
\* keeps the outcome of the last iteration alone and the iterations are not
\* counted.
Rec(x, same) == IF scope.record THEN x ELSE same
RecOutcome(o) == IF scope.record THEN Append(history, o) ELSE <<o>>
FrameAllowed == ~scope.record \/ Len(history) < scope.frames

\* An iteration that invokes no trigger_alert.
NoSession ==
    /\ alert_ret' = "none"
    /\ last_events' = <<>>
    /\ failed' = {}
    /\ display_opened' = FALSE
    /\ images_loaded' = -1
    /\ tick_transitioning' = FALSE
    /\ started_at' = 0
    /\ commits' = <<>>

SkipsSoFar == Cardinality({i \in DOMAIN history : history[i] \in Skips})
SkipAllowed == ~scope.record \/ SkipsSoFar < MaxSkips

\* One iteration of while True (lines 113-200) up to the render loop of
\* trigger_alert, or to its end when no render loop is entered.
Frame ==
    /\ pc = "loop"
    /\ FrameAllowed
    /\ \E read \in {"ok", "fail", "raise"} :
         \/ /\ read = "raise"           \* cap.read() raises: line 204
            /\ pc' = "done"
            /\ exit_code' = LoopExit(TRUE)
            /\ cap_open' = Cleanup(cap_open)
            /\ exit_reason' = "fatal"
            /\ UNCHANGED <<phone_detected_frames, alertVars, history, alert_at,
                           alert_calls, sessionObs>>
         \/ /\ read = "fail"            \* lines 115-117
            /\ SkipAllowed
            /\ history' = RecOutcome("read_fail")
            /\ phone_detected_frames' = CounterAfterFrame(phone_detected_frames, read, "no")
            /\ NoSession
            /\ UNCHANGED <<pc, exit_code, cap_open, exit_reason, alertVars, alert_at,
                           alert_calls>>
         \/ /\ read = "ok"
            /\ \E det \in {"yes", "no", "raise"} :
                 LET c == CounterAfterFrame(phone_detected_frames, read, det) IN
                 \/ /\ det = "raise"    \* lines 198-200
                    /\ SkipAllowed
                    /\ history' = RecOutcome("det_exc")
                    /\ phone_detected_frames' = c
                    /\ NoSession
                    /\ UNCHANGED <<pc, exit_code, cap_open, exit_reason, alertVars,
                                   alert_at, alert_calls>>
                 \/ /\ det # "raise"
                    /\ ~ThresholdReached(c)
                    /\ history' = RecOutcome(det)
                    /\ phone_detected_frames' = c
                    /\ NoSession
                    /\ \E t \in TailInputs \ scope.spared : FinishFrame(t)
                    /\ UNCHANGED <<alertVars, alert_at, alert_calls>>
                 \/ /\ det # "raise"
                    /\ ThresholdReached(c)      \* lines 142-146
                    /\ history' = RecOutcome(det)
                    /\ alert_at' = Rec(alert_at \cup {Len(history) + 1}, alert_at)
                    /\ alert_calls' = Rec(alert_calls + 1, alert_calls)
                    /\ last_events' = <<>>
                    /\ tick_transitioning' = FALSE
                    /\ commits' = <<>>
                    /\ \E case \in SetupCases(scope.images) :
                       LET n == case.n
                           audio_file == case.audio_file
                           f == case.f
                       IN
                         /\ failed' = Obs(SetupMet(f, n, audio_file), {})
                         /\ display_opened' = Obs(DisplayOpened(f, n), FALSE)
                         /\ images_loaded' = Obs(ImagesLoaded(f, n), -1)
                         /\ \/ /\ SetupResult(f, n) = "loop"
                               /\ pc' = "alert"
                               /\ phone_detected_frames' = c
                               /\ alert_ret' = "none"
                               /\ nimages' = n
                               /\ audio_found' = AudioFound(f, audio_file)
                               /\ warning_surf' = (~AudioFound(f, audio_file)
                                                   /\ "warn_font" \notin f)
                               /\ idx' = 0
                               /\ next_idx' = 0
                               /\ transitioning' = FALSE
                               /\ transition_start' = 0
                               /\ \E t0 \in 0..Min(MaxStart, scope.time) :
                                    /\ last_switch' = t0
                                    /\ now' = t0
                                    /\ started_at' = t0
                               /\ progress' = -1
                               /\ running' = TRUE
                               /\ should_continue' = TRUE
                               /\ UNCHANGED <<exit_code, cap_open, exit_reason>>
                            \/ /\ SetupResult(f, n) # "loop"
                               /\ ResumeMain(c, SetupResult(f, n))
                               /\ started_at' = 0
                               /\ UNCHANGED alertVars
    /\ UNCHANGED <<scope, loadVars, threshold, quit_pressed, env_seen>>

\* One iteration of the render loop (lines 209-297) at clock reading t, and,
\* when it is the last one, the return to main() and the rest of main's
\* iteration.
AlertTick ==
    /\ pc = "alert"
    /\ \E t \in now..scope.time :
         LET car == Carousel(t) IN
         /\ tick_transitioning' = Obs(car.transitioning, FALSE)
         /\ UNCHANGED started_at
         /\ \/ \* an exception of a drawing call or of event.get(): lines 299-305
               /\ last_events' = <<>>
               /\ UNCHANGED commits
               /\ failed' = Obs(failed \cup {"render"}, {})
               /\ DropSession
               /\ ResumeMain(phone_detected_frames,
                             IF should_continue THEN "true" ELSE "false")
               /\ UNCHANGED <<scope, loadVars, threshold, quit_pressed, history, alert_at, alert_calls,
                              display_opened, images_loaded, env_seen>>
            \/ \E evs \in Batches(scope.events) :
                 LET st == HandleEvents(evs, [running |-> running,
                                              should_continue |-> should_continue])
                 IN
                 /\ last_events' = Obs(evs, <<>>)
                 /\ commits' = IF car.committed
                               THEN Append(commits, [at |-> t, idx |-> car.idx])
                               ELSE commits
                 /\ \/ /\ st.running
                       /\ now' = t
                       /\ transitioning' = car.transitioning
                       /\ transition_start' = car.transition_start
                       /\ next_idx' = car.next_idx
                       /\ idx' = car.idx
                       /\ last_switch' = car.last_switch
                       /\ progress' = car.progress
                       /\ running' = st.running
                       /\ should_continue' = st.should_continue
                       /\ UNCHANGED <<scope, loadVars, mainVars, nimages, audio_found, warning_surf,
                                      history, alert_at, alert_calls, alert_ret,
                                      failed, display_opened, images_loaded,
                                      env_seen, exit_reason>>
                    \/ /\ ~st.running
                       /\ DropSession
                       /\ ResumeMain(phone_detected_frames,
                                     IF st.should_continue THEN "true" ELSE "false")
                       /\ UNCHANGED <<scope, loadVars, threshold, quit_pressed, history, alert_at,
                                      alert_calls, failed, display_opened,
                                      images_loaded, env_seen>>

\* Ctrl+C inside the try of main() (line 202), also while trigger_alert runs:
\* it is no Exception, so only the finally blocks run on the way out.
KeyboardInterrupt ==
    /\ pc \in {"loop", "alert"}
    /\ pc' = "done"
    /\ exit_code' = LoopExit(FALSE)
    /\ cap_open' = Cleanup(cap_open)
    /\ exit_reason' = "interrupt"
    /\ alert_ret' = IF pc = "alert" THEN "interrupted" ELSE alert_ret
    /\ DropSession
    /\ UNCHANGED <<scope, loadVars, threshold, quit_pressed, phone_detected_frames, history, alert_at,
                   alert_calls, last_events, failed, display_opened, images_loaded,
                   tick_transitioning, started_at, commits, env_seen>>

\* The operator presses the quit key in the main window between two
\* iterations of the detection loop.
PressQuit ==
    /\ pc = "loop"
    /\ ~quit_pressed
    /\ quit_pressed' = TRUE
    /\ UNCHANGED <<scope, loadVars, pc, threshold, phone_detected_frames, cap_open, exit_code,
                   alertVars, obsVars>>

\* No images folder.
NoFolder ==
    /\ folder = [state |-> "missing", files |-> <<>>]
    /\ IMAGEIO_AVAILABLE = FALSE

\* The state at the entry of main().
Fresh ==
    /\ pc = "start"
    /\ quit_pressed = FALSE
    /\ phone_detected_frames = 0
    /\ cap_open = FALSE
    /\ exit_code = -1
    /\ nimages = 0
    /\ audio_found = FALSE
    /\ warning_surf = FALSE
    /\ idx = 0
    /\ next_idx = 0
    /\ transitioning = FALSE
    /\ transition_start = 0
    /\ last_switch = 0
    /\ now = 0
    /\ running = FALSE
    /\ should_continue = TRUE
    /\ history = <<>>
    /\ alert_at = {}
    /\ alert_calls = 0
    /\ alert_ret = "none"
    /\ last_events = <<>>
    /\ failed = {}
    /\ display_opened = FALSE
    /\ images_loaded = -1
    /\ tick_transitioning = FALSE
    /\ started_at = 0
    /\ commits = <<>>
    /\ progress = -1
    /\ env_seen = "none"
    /\ exit_reason = "none"
    /\ surfaces = <<>>
    /\ loaded = "none"

\* The detection loop over long runs of frames and every threshold.  Of an
\* alert session the loop sees only how it ends, so sessions are explored
\* with one image, one event a tick and a clock that stands still.
Init ==
    /\ Fresh
    /\ NoFolder
    /\ threshold \in Thresholds
    /\ scope = [frames |-> MaxFrames, images |-> 1, time |-> 0, events |-> 1,
                observe |-> FALSE, record |-> TRUE, spared |-> {}]

\* The alert session in full: the first frame reaches the threshold.
InitAlert ==
    /\ Fresh
    /\ NoFolder
    /\ threshold = 1
    /\ scope = [frames |-> 1, images |-> MaxImages, time |-> MaxTime,
                events |-> MaxEvents, observe |-> TRUE, record |-> TRUE, spared |-> {}]

\* The detection loop without end: the run is not recorded, so that the
\* loop can go round for ever, and the display calls are spared their
\* exceptions, so that an iteration that gets past the detector gets to
\* waitKey.
InitQuit ==
    /\ Fresh
    /\ NoFolder
    /\ threshold \in Thresholds
    /\ scope = [frames |-> 1, images |-> 1, time |-> 0, events |-> 1,
                observe |-> FALSE, record |-> FALSE, spared |-> {"display_exc"}]

Next == Startup \/ Frame \/ AlertTick \/ KeyboardInterrupt \/ PressQuit

Spec == Init /\ [][Next]_vars

SpecAlert == InitAlert /\ [][Next]_vars

\* while True of main() and while running of trigger_alert keep iterating;
\* what each iteration meets is up to the camera, the detector and the user.
SpecQuit == InitQuit /\ [][Next]_vars /\ WF_vars(Frame) /\ WF_vars(AlertTick)

\* One call of load_horse_images.
LoadHorseImages ==
    /\ loaded = "none"
    /\ loaded' = load_horse_images.result
    /\ surfaces' = load_horse_images.surfaces
    /\ UNCHANGED <<scope, mainVars, alertVars, obsVars, folder, IMAGEIO_AVAILABLE>>

\* The carousel over several transitions: the first frame reaches the
\* threshold, and the render loop polls at most one event a tick.
InitCarousel ==
    /\ Fresh
    /\ NoFolder
    /\ threshold = 1
    /\ scope = [frames |-> 1, images |-> MaxImages, time |-> MaxClock, events |-> 1,
                observe |-> FALSE, record |-> TRUE, spared |-> {}]

SpecCarousel == InitCarousel /\ [][Next]_vars

\* What the decoder in use makes of a file: dec is "ok", "error" (an
\* exception the code catches) or "escape" (an exception of
\* pygame.image.load other than pygame.error); frames is the number of
\* frames in the file; bad is the first frame whose conversion to a surface
\* raises, frames when every frame converts.
Still(dec) == [dec |-> dec, frames |-> 1, bad |-> 1]
Animation(frames, bad) == [dec |-> "ok", frames |-> frames, bad |-> bad]
PngContents == {Still(dec) : dec \in {"ok", "error", "escape"}}
GifContents(imageio) ==
    IF imageio
    THEN {Still("error")}
         \cup {Animation(p[1], p[2]) :
                  p \in {q \in (1..MaxGifFrames) \X (0..MaxGifFrames) : q[2] <= q[1]}}
    ELSE {Still("error"), Still("escape")}
         \cup {Animation(n, n) : n \in 1..MaxGifFrames}
ContentsOf(fname, imageio) ==
    IF fname \in NamesWith(PngExts) THEN PngContents
    ELSE IF fname \in NamesWith(GifExts) THEN GifContents(imageio)
    ELSE {Still("ok")}

\* The folders of at most MaxFiles files.
Folders(imageio) ==
    UNION {{files \in [present -> PngContents \cup GifContents(imageio)] :
               \A fname \in present : files[fname] \in ContentsOf(fname, imageio)} :
           present \in {some \in SUBSET Names : Cardinality(some) <= MaxFiles}}

\* load_horse_images on its own, over every folder.
InitLoad ==
    /\ Fresh
    /\ threshold = 1
    /\ scope = [frames |-> 1, images |-> 1, time |-> 0, events |-> 1,
                observe |-> FALSE, record |-> TRUE, spared |-> {}]
    /\ IMAGEIO_AVAILABLE \in BOOLEAN
    /\ \/ folder \in {[state |-> st, files |-> <<>>] : st \in {"missing", "unlistable"}}
       \/ \E files \in Folders(IMAGEIO_AVAILABLE) :
             folder = [state |-> "listed", files |-> files]

NextLoad == LoadHorseImages

SpecLoad == InitLoad /\ [][NextLoad]_vars

\* ------------------------------------------------ reading the observations
\* The consecutive "yes" iterations that end at iteration i of h, counted
\* back to the last "no" or to the last iteration of A (an alert); skipped
\* iterations neither count nor end the run.
RECURSIVE TrailingRun(_, _, _)
TrailingRun(h, A, i) ==
    IF i = 0 \/ i \in A THEN 0
    ELSE IF h[i] = "yes" THEN 1 + TrailingRun(h, A, i - 1)
    ELSE IF h[i] = "no" THEN 0
    ELSE TrailingRun(h, A, i - 1)

\* The run that iteration i itself completes, whether or not it alerts.
RunThrough(h, A, i) ==
    IF h[i] = "yes" THEN 1 + TrailingRun(h, A, i - 1) ELSE 0

Polled(ev) == \E i \in DOMAIN last_events : last_events[i] = ev

\* The last polled event that ends the session, "none" without one.
RECURSIVE LastEnding(_)
LastEnding(evs) ==
    IF evs = <<>> THEN "none"
    ELSE IF evs[Len(evs)] # "OTHER" THEN evs[Len(evs)]
    ELSE LastEnding(SubSeq(evs, 1, Len(evs) - 1))

AlertEnded == alert_ret \in {"true", "false", "raise"}

\* ------------------------------------------------------------------ claims
\* C1: at the top of the detection loop the counter is the length of the
\* trailing run of "detected" frames since the last "not detected" frame or
\* the last alert: 0 right after a "not detected" frame, 0 right after an alert.
C1_CounterIsTrailingRun ==
    pc = "loop" =>
        /\ phone_detected_frames = TrailingRun(history, alert_at, Len(history))
        /\ (Len(history) > 0 /\ history[Len(history)] = "no"
                => phone_detected_frames = 0)
        /\ (Len(history) \in alert_at => phone_detected_frames = 0)

C1_Witness ==
    /\ pc = "loop"
    /\ threshold = 3
    /\ alert_calls = 1
    /\ phone_detected_frames = 2
    /\ \E i \in DOMAIN history : history[i] \in Skips

\* C2: trigger_alert is invoked at exactly the frames that complete a run of
\* threshold consecutive "detected" frames (for a threshold below 1: at every
\* processed frame), once each; threshold 3 and [yes,yes,no,yes,yes,yes]
\* invoke it once, at the 6th frame.
C2_AlertExactlyAtThreshold ==
    /\ alert_calls = Cardinality(alert_at)
    /\ \A i \in DOMAIN history :
         /\ i \in alert_at <=>
              /\ history[i] \in {"yes", "no"}
              /\ RunThrough(history, alert_at, i) >= threshold
         /\ (i \in alert_at /\ threshold >= 1) =>
              /\ history[i] = "yes"
              /\ RunThrough(history, alert_at, i) = threshold
    /\ (threshold = 3 /\ history = <<"yes", "yes", "no", "yes", "yes", "yes">>)
         => (alert_at = {6} /\ alert_calls = 1)

C2_Witness ==
    /\ threshold = 3
    /\ history = <<"yes", "yes", "no", "yes", "yes", "yes">>
    /\ alert_calls = 1
    /\ alert_ret = "true"

\* C3 as stated: after trigger_alert ended, whether it returned True,
\* returned False or raised, the counter is 0.
C3_ResetAfterEveryOutcome ==
    AlertEnded => phone_detected_frames = 0

\* C3 amended: the counter is 0 after trigger_alert returned True or raised;
\* after it returned False the loop is left with the counter as it was when
\* the alert was invoked.
C3_ResetUnlessQuit ==
    /\ alert_ret \in {"true", "raise"} => phone_detected_frames = 0
    /\ alert_ret = "false" =>
         /\ pc = "done"
         /\ phone_detected_frames = RunThrough(history, alert_at, Len(history))
         /\ phone_detected_frames >= threshold

C3_Witness ==
    /\ alert_ret = "raise"
    /\ threshold = 2
    /\ pc = "loop"
    /\ phone_detected_frames = 0

\* C4: once trigger_alert returned False, main() has returned 0 with the
\* camera released, and the frame that raised the alert is the last one
\* captured.
C4_QuitFromAlertEndsLoop ==
    alert_ret = "false" =>
        /\ pc = "done"
        /\ exit_code = 0
        /\ ~cap_open
        /\ exit_reason = "alert_quit"
        /\ Len(history) \in alert_at

C4_Witness ==
    /\ alert_ret = "false"
    /\ pc = "done"
    /\ Len(history) >= 3
    /\ alert_calls = 2

\* C5: an iteration whose read fails or whose detector raises leaves the
\* counter as it was, invokes no alert, and the loop goes on.
C5_SkippedFrame ==
    [][(/\ Len(history') = Len(history) + 1
        /\ history'[Len(history')] \in Skips)
       => (/\ phone_detected_frames' = phone_detected_frames
           /\ alert_calls' = alert_calls
           /\ alert_at' = alert_at
           /\ pc' = "loop")]_vars

C5_Witness ==
    /\ pc = "loop"
    /\ Len(history) >= 2
    /\ history[Len(history)] = "det_exc"
    /\ phone_detected_frames = 2

\* C6 as stated: a tick that polls a click on the continue button ends the
\* session with True, whatever else it polls.
C6_ContinueAlwaysTrue ==
    Polled("CLICK_CONTINUE") => (pc # "alert" /\ alert_ret = "true")

\* C6 amended: a tick that polls a click on the continue button ends the
\* session, transitioning or not, and trigger_alert returns True unless the
\* last session-ending event of that tick is a window close or a quit click.
C6_ContinueUnlessLaterQuit ==
    Polled("CLICK_CONTINUE") =>
        /\ pc # "alert"
        /\ alert_ret = IF LastEnding(last_events) \in {"QUIT", "CLICK_QUIT"}
                       THEN "false" ELSE "true"

C6_Witness ==
    /\ last_events = <<"OTHER", "CLICK_CONTINUE">>
    /\ tick_transitioning
    /\ alert_ret = "true"
    /\ pc = "loop"

\* C7 as stated: a tick that polls a window close or a quit click ends the
\* session with False, whatever else it polls.
C7_QuitAlwaysFalse ==
    (Polled("QUIT") \/ Polled("CLICK_QUIT")) => (pc # "alert" /\ alert_ret = "false")

\* C7 amended: a tick that polls a window close or a quit click ends the
\* session, and trigger_alert returns False unless the last session-ending
\* event of that tick is a continue click or the q/Escape key.
C7_QuitUnlessLaterContinue ==
    (Polled("QUIT") \/ Polled("CLICK_QUIT")) =>
        /\ pc # "alert"
        /\ alert_ret = IF LastEnding(last_events) \in {"CLICK_CONTINUE", "KEY_Q"}
                       THEN "true" ELSE "false"

C7_Witness ==
    /\ last_events = <<"CLICK_CONTINUE", "CLICK_QUIT">>
    /\ alert_ret = "false"
    /\ pc = "done"
    /\ exit_code = 0

\* C8 as stated: a tick that polls the quit key ends the session with False
\* and the detection loop terminates.
C8_QuitKeyQuits ==
    Polled("KEY_Q") => (alert_ret = "false" /\ pc = "done")

\* C8 amended: a tick that polls the q or Escape key ends the session, and
\* when that key is the last session-ending event of the tick trigger_alert
\* returns True: the counter is reset and the detection loop is not ended by
\* the alert.
C8_QuitKeyDismisses ==
    Polled("KEY_Q") =>
        /\ pc # "alert"
        /\ LastEnding(last_events) = "KEY_Q" =>
             /\ alert_ret = "true"
             /\ phone_detected_frames = 0
             /\ exit_reason # "alert_quit"

C8_Witness ==
    /\ last_events = <<"QUIT", "KEY_Q">>
    /\ alert_ret = "true"
    /\ pc = "loop"

\* The failures C9 lists.
Listed == {"init", "audio", "display", "font", "warn_font", "render"}

\* C9 as stated: with an empty image set trigger_alert returns True and opens
\* no window; after any listed failure it returns True.
C9_AlwaysFailsOpen ==
    AlertEnded =>
        /\ images_loaded = 0 => (alert_ret = "true" /\ ~display_opened)
        /\ failed \cap Listed # {} => alert_ret = "true"

\* C9 amended: with an empty image set trigger_alert returns True and opens
\* no window; after a failure of pygame.init, of window creation or of
\* button-text rendering, or an exception in the render loop, it returns
\* True; a failure of audio initialisation or of banner rendering alone does
\* not end the session: the window opens and the polled events decide.
C9_FailsOpenExceptAudio ==
    AlertEnded =>
        /\ images_loaded = 0 => (alert_ret = "true" /\ ~display_opened)
        /\ failed \cap {"init", "display", "font", "render"} # {}
             => alert_ret = "true"
        /\ (failed # {} /\ failed \subseteq {"audio", "warn_font"}) =>
             /\ display_opened
             /\ alert_ret = IF LastEnding(last_events) \in {"QUIT", "CLICK_QUIT"}
                            THEN "false" ELSE "true"

C9_Witness ==
    /\ failed = {"audio", "warn_font", "render"}
    /\ alert_ret = "true"
    /\ tick_transitioning
    /\ pc = "loop"

C11_QuitEventuallyExits ==
    (quit_pressed /\ pc = "loop") ~> (pc \in {"done", "alert"})

\* The list load_horse_images built holds, for every file of the folder, the
\* frames 0 .. Count(file) - 1 of that file and nothing else, files in the
\* order of their names and the frames of a file in their own order.
EntriesAre(Count(_)) ==
    /\ \A fname \in Names, k \in 0..MaxGifFrames :
         (fname \in DOMAIN folder.files /\ k < Count(fname))
             <=> (\E i \in DOMAIN surfaces : surfaces[i] = Entry(fname, k))
    /\ \A i, j \in DOMAIN surfaces :
         i < j => \/ StrLess(surfaces[i].file, surfaces[j].file)
                  \/ /\ surfaces[i].file = surfaces[j].file
                     /\ surfaces[i].frame < surfaces[j].frame

\* A file the decoder in use can read.
Readable(fname) == folder.files[fname].dec = "ok"

\* The entries the sentence gives a file: one for a readable .png, one for
\* each frame of a readable .gif.
Claimed(fname) ==
    IF ~Readable(fname) THEN 0
    ELSE IF fname \in NamesWith(PngExts) THEN 1
    ELSE IF fname \in NamesWith(GifExts) THEN folder.files[fname].frames
    ELSE 0

\* The entries the code gives a file.
Contributed(fname) ==
    IF ~Readable(fname) THEN 0
    ELSE IF fname \in NamesWith(PngExts) THEN 1
    ELSE IF fname \in NamesWith(GifExts)
         THEN IF IMAGEIO_AVAILABLE THEN folder.files[fname].bad ELSE 1
    ELSE 0

\* A .png, or a .gif when imageio is missing, on which pygame.image.load
\* raises something other than pygame.error.
SomeLoadEscapes ==
    \E fname \in DOMAIN folder.files :
        /\ folder.files[fname].dec = "escape"
        /\ \/ fname \in NamesWith(PngExts)
           \/ fname \in NamesWith(GifExts) /\ ~IMAGEIO_AVAILABLE

\* C12 as stated: load_horse_images returns, in sorted file-name order, one
\* entry per readable .png and one entry per frame of each readable .gif;
\* everything else contributes nothing, and a missing or empty folder gives
\* the empty list.
C12_EveryGifFrameLoaded ==
    loaded # "none" => (loaded = "returned" /\ EntriesAre(Claimed))

\* C12: load_horse_images returns, in sorted file-name order, one entry per
\* readable .png and, for a readable .gif, its first frame alone when imageio
\* is missing and its frames up to the first that fails to convert when
\* imageio is there; nothing is returned exactly when a pygame.image.load
\* raises something other than pygame.error.
C12_LoadsWhatTheDecoderGives ==
    loaded # "none" =>
        /\ (loaded = "raised") <=> SomeLoadEscapes
        /\ loaded = "returned" => EntriesAre(Contributed)

\* The example of the sentence: with imageio, a 4-frame GIF sorting before
\* one PNG gives 5 entries, the PNG last.
C12_Witness ==
    /\ loaded = "returned"
    /\ IMAGEIO_AVAILABLE
    /\ \E gif \in NamesWith(GifExts), png \in NamesWith(PngExts) :
         /\ DOMAIN folder.files = {gif, png}
         /\ StrLess(gif, png)
         /\ folder.files[gif] = Animation(4, 4)
         /\ Readable(png)
         /\ surfaces = <<Entry(gif, 0), Entry(gif, 1), Entry(gif, 2), Entry(gif, 3),
                         Entry(png, 0)>>

\* A render tick after which the render loop goes on.
TickGoesOn == pc = "alert" /\ pc' = "alert" /\ now' >= now

\* The tick of the last commit of the session, or of its start.
LastCommitOrStart ==
    IF commits = <<>> THEN started_at ELSE commits[Len(commits)].at

\* C13: at every render tick, progress is between 0 and 1; within one
\* transition it does not decrease; at the tick where it reaches 1 the
\* transition ends, the index planned at its start becomes current and
\* last_switch is that tick; and a transition starts only when none is in
\* progress and switch_interval has passed since the last commit, or since
\* the session started.
C13_TransitionProgress ==
    [][TickGoesOn =>
        /\ progress' # -1 => progress' \in 0..transition_duration
        /\ transitioning => progress' >= progress
        /\ (transitioning /\ progress' = transition_duration)
              => /\ ~transitioning'
                 /\ idx' = next_idx
                 /\ last_switch' = now'
                 /\ commits' = Append(commits, [at |-> now', idx |-> next_idx])
        /\ (transition_start' # transition_start \/ (~transitioning /\ transitioning'))
              => /\ ~transitioning
                 /\ transition_start' = now'
                 /\ now' - LastCommitOrStart >= switch_interval]_vars

\* Two transitions are over and a third is half way.
C13_Witness ==
    /\ pc = "alert"
    /\ Len(commits) = 2
    /\ transitioning
    /\ progress > 0
    /\ progress < transition_duration

\* The indices of a render loop over n images, after k commits.
IndicesInTurn ==
    pc = "alert" =>
        /\ nimages >= 1
        /\ idx \in 0..(nimages - 1)
        /\ next_idx \in 0..(nimages - 1)
        /\ transitioning => next_idx = (idx + 1) % nimages
        /\ ~transitioning => next_idx = idx
        /\ \A k \in DOMAIN commits : commits[k].idx = k % nimages
        /\ idx = Len(commits) % nimages

\* C14: in a session with n >= 1 images, idx and next_idx stay in 0..n-1,
\* next_idx is (idx + 1) mod n while transitioning and idx otherwise, the
\* session starts at idx = 0 and not transitioning, and the committed
\* indices are 1, 2, ..., n-1, 0, 1, ... in turn after the initial 0.
C14_CarouselIndices ==
    /\ []IndicesInTurn
    /\ [][(pc # "alert" /\ pc' = "alert")
             => (idx' = 0 /\ next_idx' = 0 /\ ~transitioning' /\ commits' = <<>>)]_vars

\* With two images the carousel has come round to image 0 and is on its
\* way to image 1 again.
C14_Witness ==
    /\ pc = "alert"
    /\ nimages = 2
    /\ Len(commits) = 2
    /\ idx = 0
    /\ transitioning
    /\ next_idx = 1

====
